---- MODULE Spec2Model ----
(***************************************************************************)
(* Model of src/config/element.rs: the transformation of a parsed Hocon    *)
(* value into WidgetUse / WidgetDefinition trees.                          *)
(*                                                                         *)
(* A Hocon::Hash is a std HashMap<String, Hocon>.  A HashMap has no        *)
(* document order: into_iter() walks the table in an order fixed by the    *)
(* instance's hasher seed and layout.  A hash is therefore modelled as the *)
(* sequence of its (key, value) pairs in the iteration order of that       *)
(* instance; two instances are equal as values (PartialEq) when they hold  *)
(* the same pairs in any order.                                            *)
(***************************************************************************)
EXTENDS Integers, Sequences, FiniteSets, TLC

VARIABLES name, data, pc, out, data2, out2

vars == <<name, data, pc, out, data2, out2>>

\* ------------------------------------------------------------------ bounds

MaxLen == 2

MaxAttrs == 2

\* ------------------------------------------------------------ Hocon values

\* An i64 is kept at its width as two 32-bit words: the value is
\* hi * 2^32 + (lo mod 2^32), lo being the low word read as an i32.
HString(s) == [tag |-> "String", s |-> s]

HInteger(hi, lo) == [tag |-> "Integer", hi |-> hi, lo |-> lo]

HReal(hi, lo) == [tag |-> "Real", hi |-> hi, lo |-> lo]

HBoolean(b) == [tag |-> "Boolean", b |-> b]

HNull == [tag |-> "Null"]

HArray(items) == [tag |-> "Array", items |-> items]

HHash(pairs) == [tag |-> "Hash", pairs |-> pairs]

Pair(k, v) == [k |-> k, v |-> v]

\* ------------------------------------------------------------------ results

Ok(u) == [ok |-> TRUE, use |-> u]

OkChildren(us) == [ok |-> TRUE, uses |-> us]

OkDefinition(d) == [ok |-> TRUE, def |-> d]

OkAttr(a) == [ok |-> TRUE, attr |-> a]

Err(e) == [ok |-> FALSE, err |-> e]

NoValue == [tag |-> "None"]

\* An error: its kind, the identifiers its message names, the value it shows.
Error(kind, names, value) == [kind |-> kind, names |-> names, value |-> value]

\* ------------------------------------------------------------- collaborators

\* AttrValue::try_from(&Hocon): strings, numbers and booleans coerce, the
\* integer and the real of one value to the same Number; nothing else does.
TryFromHocon(v) ==
  CASE v.tag = "String" -> OkAttr([av |-> "String", s |-> v.s])
    [] v.tag = "Integer" -> OkAttr([av |-> "Number", hi |-> v.hi, lo |-> v.lo])
    [] v.tag = "Real" -> OkAttr([av |-> "Number", hi |-> v.hi, lo |-> v.lo])
    [] v.tag = "Boolean" -> OkAttr([av |-> "Boolean", b |-> v.b])
    [] OTHER -> Err(Error("AttrValueCoercionFailed", {}, v))

\* HoconExt::as_hash
AsHash(hocon) ==
  IF hocon.tag = "Hash" THEN [ok |-> TRUE, pairs |-> hocon.pairs]
  ELSE Err(Error("NotAHash", {}, hocon))

\* str::to_lowercase on the keys the model uses
ToLowercase(k) ==
  CASE k = "Foo" -> "foo"
    [] k = "Value" -> "value"
    [] k = "CHILDREN" -> "children"
    [] OTHER -> k

\* str::parse::<i64> on the strings the model uses
ParseI64(s) ==
  CASE s = "12" -> [some |-> TRUE, hi |-> 0, lo |-> 12]
    [] OTHER -> [some |-> FALSE]

\* Hocon::as_i64
AsI64(v) ==
  CASE v.tag = "Integer" -> [some |-> TRUE, hi |-> v.hi, lo |-> v.lo]
    [] v.tag = "String" -> ParseI64(v.s)
    [] OTHER -> [some |-> FALSE]

\* `n as i32`: the low 32 bits
AsI32(n) == n.lo

\* ------------------------------------------------------------------ HashMap

HasKey(pairs, key) == \E i \in 1..Len(pairs) : pairs[i].k = key

\* HashMap::get
Get(pairs, key) == pairs[CHOOSE i \in 1..Len(pairs) : pairs[i].k = key].v

\* HashMap::remove: the other entries keep their places
Remove(pairs, key) == SelectSeq(pairs, LAMBDA p : p.k # key)

\* HashMap::insert
Insert(m, k, v) == [x \in (DOMAIN m) \cup {k} |-> IF x = k THEN v ELSE m[x]]

EmptyMap == <<>>

\* ---------------------------------------------------------------- WidgetUse

WidgetUse_new(widget_name, children) ==
  [name |-> widget_name, children |-> children, attrs |-> EmptyMap]

\* the label's text stored under another key
simple_text_value_key(text) ==
  [name |-> "label", children |-> <<>>, attrs |-> Insert(EmptyMap, "value", text)]

simple_text(text) ==
  [name |-> "label", children |-> <<>>, attrs |-> Insert(EmptyMap, "text", text)]

\* the keys kept as written
RECURSIVE collect_attrs_keep_case(_, _)
collect_attrs_keep_case(pairs, acc) ==
  IF pairs = <<>> THEN acc
  ELSE LET p == Head(pairs)
           a == TryFromHocon(p.v)
       IN  collect_attrs_keep_case(Tail(pairs),
                                   IF a.ok THEN Insert(acc, p.k, a.attr) ELSE acc)

\* lines 85-88: into_iter().filter_map(..).collect()
RECURSIVE collect_attrs(_, _)
collect_attrs(pairs, acc) ==
  IF pairs = <<>> THEN acc
  ELSE LET p == Head(pairs)
           a == TryFromHocon(p.v)
       IN  collect_attrs(Tail(pairs),
                         IF a.ok THEN Insert(acc, ToLowercase(p.k), a.attr) ELSE acc)

RECURSIVE WidgetUse_parse_hocon(_)
RECURSIVE from_hash_definition(_, _)
RECURSIVE parse_widget_use_children(_)
RECURSIVE collect_uses(_)
RECURSIVE collect_uses_reversed(_)
RECURSIVE collect_uses_skip_failed(_)
RECURSIVE from_hash_definition_no_children(_, _)

\* an empty hash taken as a widget with no name and no configuration
next_entry_or_default(pairs) ==
  IF pairs = <<>> THEN [ok |-> TRUE, pair |-> Pair("", HHash(<<>>))]
  ELSE [ok |-> TRUE, pair |-> pairs[1]]

\* line 57: into_iter().next().context(..)
next_entry(pairs) ==
  IF pairs = <<>> THEN Err(Error("EmptyWidgetUse", {}, NoValue))
  ELSE [ok |-> TRUE, pair |-> pairs[1]]

\* the children gathered back to front
collect_uses_reversed(items) ==
  IF items = <<>> THEN OkChildren(<<>>)
  ELSE LET h == WidgetUse_parse_hocon(Head(items))
       IN  IF ~h.ok THEN Err(h.err)
           ELSE LET t == collect_uses_reversed(Tail(items))
                IN  IF t.ok THEN OkChildren(t.uses \o <<h.use>>) ELSE Err(t.err)

\* the elements that fail are left out
collect_uses_skip_failed(items) ==
  IF items = <<>> THEN OkChildren(<<>>)
  ELSE LET h == WidgetUse_parse_hocon(Head(items))
           t == collect_uses_skip_failed(Tail(items))
       IN  IF ~h.ok THEN t ELSE OkChildren(<<h.use>> \o t.uses)

\* lines 118-121: into_iter().map(WidgetUse::parse_hocon).collect::<Result<Vec<_>>>()
collect_uses(items) ==
  IF items = <<>> THEN OkChildren(<<>>)
  ELSE LET h == WidgetUse_parse_hocon(Head(items))
       IN  IF ~h.ok THEN Err(h.err)
           ELSE LET t == collect_uses(Tail(items))
                IN  IF t.ok THEN OkChildren(<<h.use>> \o t.uses) ELSE Err(t.err)

parse_widget_use_children(children) ==
  CASE children.tag = "Hash" -> Err(Error("InvalidChildrenShape", {}, children))
    [] children.tag = "Array" -> collect_uses(children.items)
    [] OTHER -> LET a == TryFromHocon(children)
                IN  IF a.ok THEN OkChildren(<<simple_text(a.attr)>>) ELSE Err(a.err)

\* the "children" entry dropped without being transformed
from_hash_definition_no_children(widget_name, widget_config) ==
  Ok([name |-> widget_name,
      children |-> <<>>,
      attrs |-> collect_attrs(Remove(widget_config, "children"), EmptyMap)])

from_hash_definition(widget_name, widget_config) ==
  LET children == IF HasKey(widget_config, "children")
                  THEN parse_widget_use_children(Get(widget_config, "children"))
                  ELSE OkChildren(<<>>)
  IN  IF ~children.ok THEN Err(children.err)
      ELSE Ok([name |-> widget_name,
               children |-> children.uses,
               attrs |-> collect_attrs(Remove(widget_config, "children"), EmptyMap)])

WidgetUse_parse_hocon(d) ==
  IF d.tag = "Hash"
  THEN LET first == next_entry(d.pairs)
       IN
       IF ~first.ok THEN Err(first.err)
       ELSE LET widget_name == first.pair.k
                widget_config == first.pair.v
            IN  IF widget_config.tag = "Hash"
                THEN from_hash_definition(widget_name, widget_config.pairs)
                ELSE LET c == parse_widget_use_children(widget_config)
                     IN  IF c.ok THEN Ok(WidgetUse_new(widget_name, c.uses))
                         ELSE Err(c.err)
  ELSE LET a == TryFromHocon(d)
       IN  IF a.ok THEN Ok(simple_text(a.attr)) ELSE Err(a.err)

\* --------------------------------------------------------- WidgetDefinition

\* lines 28-33: the try block
size_of(definition) ==
  IF ~HasKey(definition, "size_x") THEN [some |-> FALSE]
  ELSE LET x == AsI64(Get(definition, "size_x"))
       IN  IF ~x.some THEN [some |-> FALSE]
           ELSE IF ~HasKey(definition, "size_y") THEN [some |-> FALSE]
           ELSE LET y == AsI64(Get(definition, "size_y"))
                IN  IF ~y.some THEN [some |-> FALSE]
                    ELSE [some |-> TRUE, x |-> AsI32(x), y |-> AsI32(y)]

\* lines 19-23, a missing structure replaced by the default WidgetUse
get_structure_or_default(definition) ==
  IF ~HasKey(definition, "structure") THEN Ok(WidgetUse_new("", <<>>))
  ELSE WidgetUse_parse_hocon(Get(definition, "structure"))

\* lines 19-23: get("structure").cloned().context(..).and_then(WidgetUse::parse_hocon)
get_structure(definition) ==
  IF ~HasKey(definition, "structure")
  THEN Err(Error("MissingField", {"structure"}, NoValue))
  ELSE WidgetUse_parse_hocon(Get(definition, "structure"))

WidgetDefinition_parse_hocon(n, hocon) ==
  LET definition == AsHash(hocon)
  IN  IF ~definition.ok THEN Err(definition.err)
      ELSE LET structure == get_structure(definition.pairs)
           IN  IF ~structure.ok THEN Err(structure.err)
               ELSE OkDefinition([name |-> n,
                                  structure |-> structure.use,
                                  size |-> size_of(definition.pairs)])

\* ------------------------------------------------------------------- inputs

SeqsUpTo(S, n) == UNION {[1..m -> S] : m \in 0..n}

DistinctKeys(pairs) ==
  \A i, j \in 1..Len(pairs) : i # j => pairs[i].k # pairs[j].k

InsertAt(s, i, p) == SubSeq(s, 1, i - 1) \o <<p>> \o SubSeq(s, i, Len(s))

\* the orders in which a HashMap holding these pairs can iterate
Orders(pairs) ==
  {[i \in 1..Len(pairs) |-> pairs[f[i]]] :
     f \in {g \in [1..Len(pairs) -> 1..Len(pairs)] :
              \A i, j \in 1..Len(pairs) : i # j => g[i] # g[j]}}

Prims == {HString("hi"), HInteger(0, 1), HReal(0, 1), HBoolean(TRUE), HNull}

EmptyHash == HHash(<<>>)

\* what stands at an element of a children array
Elems ==
  {HString("hi"), HInteger(0, 1), HNull, EmptyHash,
   HHash(<<Pair("child", HArray(<<HString("hi")>>))>>)}

Arrays == {HArray(s) : s \in SeqsUpTo(Elems, MaxLen)}

\* what stands at a children position
ChildSpecs == Prims \cup Arrays \cup {EmptyHash}

FewChildSpecs ==
  {HString("hi"), HArray(<<HString("hi"), HInteger(0, 1)>>), HArray(<<EmptyHash>>)}

AttrKeys == {"Foo", "foo", "value"}

AttrVals == {HString("hi"), HInteger(0, 1), HNull}

AttrPairs == {Pair(k, v) : k \in AttrKeys, v \in AttrVals}

AttrSeqs == {s \in SeqsUpTo(AttrPairs, MaxAttrs) : DistinctKeys(s)}

WithChildren(attrs, specs) ==
  UNION {{InsertAt(s, i, Pair("children", c)) : i \in 1..(Len(s) + 1), c \in specs} :
           s \in attrs}

\* the inner hash of a hash-style widget use
InnerHashes ==
  {HHash(s) : s \in AttrSeqs
                \cup WithChildren(AttrSeqs, FewChildSpecs)
                \cup WithChildren({s \in AttrSeqs : Len(s) <= 1}, ChildSpecs)
                \cup {<<Pair("CHILDREN", c)>> : c \in FewChildSpecs}}

WidgetNames == {"w"}

SingleUses ==
  {HHash(<<Pair(n, inner)>>) : n \in WidgetNames, inner \in ChildSpecs \cup InnerHashes}

\* a hash of several entries where a widget use is expected
MultiUses ==
  {HHash(s) : s \in {q \in [1..2 -> {Pair(k, v) : k \in {"a", "b"},
                                       v \in {HArray(<<>>), HString("hi"), EmptyHash,
                                              HArray(<<EmptyHash>>)}}] :
                       DistinctKeys(q)}}

UseInputs == Prims \cup Elems \cup Arrays \cup SingleUses \cup MultiUses

Structures ==
  {HHash(<<Pair("foo", EmptyHash)>>), HString("hi"), EmptyHash, HNull,
   HHash(<<Pair("foo", HArray(<<EmptyHash>>))>>)}

SizeVals ==
  {HInteger(0, 2), HInteger(1, 0), HInteger(-1, -1), HInteger(0, -1),
   HString("12"), HString("hi"), HReal(0, 1)}

DefinitionPairs ==
  {Pair("structure", s) : s \in Structures}
    \cup {Pair(k, v) : k \in {"size_x", "size_y"}, v \in SizeVals}

DefinitionInputs ==
  {HHash(s) : s \in {q \in SeqsUpTo(DefinitionPairs, 3) : DistinctKeys(q)}}

Inputs == UseInputs \cup DefinitionInputs

DefinitionNames == {"widget_name", "bar"}

\* an equal value held by other HashMap instances: the same entries, iterated
\* in any order, at the hash and at the hashes right under it
Reordered(v) ==
  IF v.tag = "Hash" THEN {HHash(s) : s \in Orders(v.pairs)} ELSE {v}

Rehashed(v) ==
  IF v.tag = "Hash"
  THEN UNION {{HHash(s) : s \in Orders(q)} :
                q \in {r \in [1..Len(v.pairs) -> UNION {{Pair(v.pairs[i].k, w) :
                                                           w \in Reordered(v.pairs[i].v)} :
                                                          i \in 1..Len(v.pairs)}] :
                         \A i \in 1..Len(v.pairs) :
                            r[i].k = v.pairs[i].k /\ r[i].v \in Reordered(v.pairs[i].v)}}
  ELSE {v}

CaseVariants(k) ==
  {x \in {"Foo", "foo", "value", "Value", "children", "CHILDREN"} :
     ToLowercase(x) = ToLowercase(k)}

\* the inner hashes that differ from this one only in the letter case of keys
Recased(pairs) ==
  {q \in [1..Len(pairs) -> UNION {{Pair(x, pairs[i].v) : x \in CaseVariants(pairs[i].k)} :
                                   i \in 1..Len(pairs)}] :
     /\ \A i \in 1..Len(pairs) :
           q[i].v = pairs[i].v /\ q[i].k \in CaseVariants(pairs[i].k)
     /\ DistinctKeys(q)}

IsHashStyle(v) ==
  v.tag = "Hash" /\ Len(v.pairs) = 1 /\ v.pairs[1].v.tag = "Hash"

\* ------------------------------------------------------------ state machine

None == [tag |-> "None"]

Init ==
  /\ name = ""
  /\ data \in Inputs
  /\ pc = "input"
  /\ out = None
  /\ data2 = None
  /\ out2 = None

ParseUse ==
  /\ pc = "input"
  /\ out' = WidgetUse_parse_hocon(data)
  /\ pc' = "use"
  /\ UNCHANGED <<name, data, data2, out2>>

ParseChildren ==
  /\ pc = "input"
  /\ out' = parse_widget_use_children(data)
  /\ pc' = "children"
  /\ UNCHANGED <<name, data, data2, out2>>

ParseDefinition ==
  /\ pc = "input"
  /\ \E n \in DefinitionNames :
        /\ name' = n
        /\ out' = WidgetDefinition_parse_hocon(n, data)
  /\ pc' = "definition"
  /\ UNCHANGED <<data, data2, out2>>

\* the same configuration value, held by another HashMap instance, parsed again
ParseUseAgain ==
  /\ pc = "use"
  /\ \E d \in Rehashed(data) :
        /\ data2' = d
        /\ out2' = WidgetUse_parse_hocon(d)
  /\ pc' = "again"
  /\ UNCHANGED <<name, data, out>>

\* a hash-style configuration that differs only in the letter case of its
\* attribute keys, parsed after the first
ParseUseRecased ==
  /\ pc = "use"
  /\ IsHashStyle(data)
  /\ \E q \in Recased(data.pairs[1].v.pairs) :
        /\ data2' = HHash(<<Pair(data.pairs[1].k, HHash(q))>>)
        /\ out2' = WidgetUse_parse_hocon(data2')
  /\ pc' = "recased"
  /\ UNCHANGED <<name, data, out>>

Next ==
  \/ ParseUse
  \/ ParseChildren
  \/ ParseDefinition
  \/ ParseUseAgain
  \/ ParseUseRecased

Spec == Init /\ [][Next]_vars

\* ------------------------------------------------------------------- claims

IsPrimitive(v) == v.tag \notin {"Hash", "Array"}

\* the implicit text label of a coerced value, stated field by field
IsLabelOf(u, a) ==
  /\ u.name = "label"
  /\ u.children = <<>>
  /\ DOMAIN u.attrs = {"text"}
  /\ u.attrs["text"] = a

\* C1: a primitive whose coercion succeeds becomes, at the top level, the
\* WidgetUse "label" with no children and the single attribute "text" holding
\* the coerced value, and at a children position the one-element sequence
\* holding that same label.
C1_LeafPromotion ==
  (IsPrimitive(data) /\ TryFromHocon(data).ok) =>
     /\ pc = "use" => (out.ok /\ IsLabelOf(out.use, TryFromHocon(data).attr))
     /\ pc = "children" =>
          (out.ok /\ Len(out.uses) = 1 /\ IsLabelOf(out.uses[1], TryFromHocon(data).attr))

C1_Witness ==
  /\ pc = "children"
  /\ data = HReal(0, 1)
  /\ out.ok
  /\ out.uses[1].attrs["text"].av = "Number"

\* a single-entry hash whose value is not a hash: the positional shorthand
IsShorthand(v) ==
  v.tag = "Hash" /\ Len(v.pairs) = 1 /\ v.pairs[1].v.tag # "Hash"

\* the hash form { name: { children: c } }
HashForm(n, c) == HHash(<<Pair(n, HHash(<<Pair("children", c)>>))>>)

\* C2: { name: [c1, c2, ...] } and { name: { children: [c1, c2, ...] } } both
\* fail or both succeed, and when they succeed their children are equal; and
\* { name: p } for a primitive p gives the children of { name: { children: [p] } }.
C2_ShorthandEquivalence ==
  (pc = "use" /\ IsShorthand(data)) =>
     LET n == data.pairs[1].k
         c == data.pairs[1].v
         h == WidgetUse_parse_hocon(HashForm(n, IF c.tag = "Array" THEN c ELSE HArray(<<c>>)))
     IN  /\ h.ok = out.ok
         /\ out.ok => h.use.children = out.use.children

C2_Witness ==
  /\ pc = "use"
  /\ IsShorthand(data)
  /\ data.pairs[1].v.tag = "Array"
  /\ Len(data.pairs[1].v.items) = 2
  /\ out.ok
  /\ out.use.children[1] # out.use.children[2]

\* the children specification of a widget use, if it has one
HasChildSpec(v) ==
  /\ v.tag = "Hash"
  /\ v.pairs # <<>>
  /\ v.pairs[1].v.tag = "Hash" => HasKey(v.pairs[1].v.pairs, "children")

ChildSpecOf(v) ==
  IF v.pairs[1].v.tag = "Hash" THEN Get(v.pairs[1].v.pairs, "children") ELSE v.pairs[1].v

ElementsInOrder(items, uses) ==
  /\ Len(uses) = Len(items)
  /\ \A i \in 1..Len(items) :
        /\ WidgetUse_parse_hocon(items[i]).ok
        /\ uses[i] = WidgetUse_parse_hocon(items[i]).use

\* C4: when the children-list transformation of an array [e1, ..., en]
\* succeeds, the result has n elements and its i-th element is the WidgetUse
\* of ei, in source order; the same holds of the children of a widget use
\* built from an array, in either syntax.
C4_ChildrenOrder ==
  /\ (pc = "children" /\ data.tag = "Array" /\ out.ok) =>
        ElementsInOrder(data.items, out.uses)
  /\ (pc = "use" /\ HasChildSpec(data) /\ ChildSpecOf(data).tag = "Array" /\ out.ok) =>
        ElementsInOrder(ChildSpecOf(data).items, out.use.children)

C4_Witness ==
  /\ pc = "use"
  /\ HasChildSpec(data)
  /\ ChildSpecOf(data) = HArray(<<HHash(<<Pair("child", HArray(<<HString("hi")>>))>>),
                                  HInteger(0, 1)>>)
  /\ out.ok
  /\ out.use.children[1].name = "child"
  /\ out.use.children[2].name = "label"

\* the places, in iteration order, of the attribute pairs that coerce
Coercible(rest) == {i \in 1..Len(rest) : TryFromHocon(rest[i].v).ok}

\* C5: { name: H } with H a hash gives WidgetUse{name, children, attrs}:
\* children is the children-list transformation of H["children"], or empty
\* when the key is absent; attrs has exactly the lower-cased keys of the other
\* pairs whose value coerces, each with the coerced value of the pair written
\* last under that key; a pair that does not coerce is left out and never
\* makes the construction fail.
C5_HashStyle ==
  (pc = "use" /\ IsHashStyle(data)) =>
     LET H == data.pairs[1].v.pairs
         rest == Remove(H, "children")
         c == IF HasKey(H, "children")
              THEN parse_widget_use_children(Get(H, "children"))
              ELSE OkChildren(<<>>)
     IN  /\ out.ok = c.ok
         /\ out.ok =>
              /\ out.use.name = data.pairs[1].k
              /\ out.use.children = c.uses
              /\ DOMAIN out.use.attrs = {ToLowercase(rest[i].k) : i \in Coercible(rest)}
              /\ \A i \in Coercible(rest) :
                    (\A j \in Coercible(rest) :
                        ToLowercase(rest[j].k) = ToLowercase(rest[i].k) => j <= i)
                    => out.use.attrs[ToLowercase(rest[i].k)] = TryFromHocon(rest[i].v).attr

C5_Witness ==
  /\ pc = "use"
  /\ IsHashStyle(data)
  /\ HasKey(data.pairs[1].v.pairs, "children")
  /\ \E i \in 1..Len(data.pairs[1].v.pairs) :
        data.pairs[1].v.pairs[i] = Pair("value", HNull)
  /\ \E i \in 1..Len(data.pairs[1].v.pairs) :
        data.pairs[1].v.pairs[i] = Pair("Foo", HString("hi"))
  /\ out.ok
  /\ DOMAIN out.use.attrs = {"foo"}
  /\ Len(out.use.children) = 2

DefinitionShape ==
  /\ data.tag # "Hash" => (~out.ok /\ out.err.kind = "NotAHash")
  /\ (data.tag = "Hash" /\ HasKey(data.pairs, "structure")) =>
        LET s == WidgetUse_parse_hocon(Get(data.pairs, "structure"))
        IN  /\ out.ok = s.ok
            /\ ~s.ok => out.err = s.err
            /\ s.ok => (out.def.name = name /\ out.def.structure = s.use)

Widen(x) == [hi |-> IF x < 0 THEN -1 ELSE 0, lo |-> x]

SizeKeyParses(pairs, key) == HasKey(pairs, key) /\ AsI64(Get(pairs, key)).some

Supplied(pairs, key) ==
  [hi |-> AsI64(Get(pairs, key)).hi, lo |-> AsI64(Get(pairs, key)).lo]

\* C7 as stated: when size_x and size_y are both present and parse as
\* integers, size is Some((x, y)) with x and y the supplied integers;
\* otherwise size is None; the size keys never make the construction fail.
C7_Original ==
  (pc = "definition" /\ data.tag = "Hash" /\ HasKey(data.pairs, "structure")) =>
     /\ out.ok = WidgetUse_parse_hocon(Get(data.pairs, "structure")).ok
     /\ out.ok =>
          IF SizeKeyParses(data.pairs, "size_x") /\ SizeKeyParses(data.pairs, "size_y")
          THEN /\ out.def.size.some
               /\ Widen(out.def.size.x) = Supplied(data.pairs, "size_x")
               /\ Widen(out.def.size.y) = Supplied(data.pairs, "size_y")
          ELSE ~out.def.size.some

\* C8: an empty hash as a widget use fails with EmptyWidgetUse, at the top
\* level and as the element of a children array that the construction
\* reaches; { name: {} } is no error and gives the widget with no children
\* and no attributes.
C8_EmptyHash ==
  /\ (pc = "use" /\ data = EmptyHash) =>
        (~out.ok /\ out.err.kind = "EmptyWidgetUse")
  /\ (pc = "children" /\ data.tag = "Array") =>
        \A i \in 1..Len(data.items) :
           (/\ data.items[i] = EmptyHash
            /\ \A j \in 1..(i - 1) : WidgetUse_parse_hocon(data.items[j]).ok)
           => (~out.ok /\ out.err.kind = "EmptyWidgetUse")
  /\ (pc = "use" /\ IsShorthand(data) /\ data.pairs[1].v.tag = "Array") =>
        \A i \in 1..Len(data.pairs[1].v.items) :
           (/\ data.pairs[1].v.items[i] = EmptyHash
            /\ \A j \in 1..(i - 1) : WidgetUse_parse_hocon(data.pairs[1].v.items[j]).ok)
           => (~out.ok /\ out.err.kind = "EmptyWidgetUse")
  /\ (pc = "use" /\ IsHashStyle(data) /\ data.pairs[1].v = EmptyHash) =>
        /\ out.ok
        /\ out.use.name = data.pairs[1].k
        /\ out.use.children = <<>>
        /\ DOMAIN out.use.attrs = {}

C8_Witness ==
  /\ pc = "use"
  /\ IsShorthand(data)
  /\ data.pairs[1].v = HArray(<<HString("hi"), EmptyHash>>)
  /\ ~out.ok
  /\ out.err.kind = "EmptyWidgetUse"

Fails(v) == ~WidgetUse_parse_hocon(v).ok

FirstFailing(items) ==
  CHOOSE i \in 1..Len(items) :
    Fails(items[i]) /\ \A j \in 1..(i - 1) : ~Fails(items[j])

\* C9: a failure below fails everything above it, with nothing of the tree
\* returned: a hash at a children position, an empty hash as a widget use, a
\* primitive at a leaf or children position that does not coerce.  A children
\* array fails with the error of its first failing element.  An attribute
\* value that does not coerce fails nothing.
C9_FailFast ==
  /\ (pc \in {"use", "children"} /\ ~out.ok) => DOMAIN out = {"ok", "err"}
  /\ (pc = "children" /\ data.tag = "Hash") =>
        (~out.ok /\ out.err = Error("InvalidChildrenShape", {}, data))
  /\ (pc \in {"use", "children"} /\ IsPrimitive(data) /\ ~TryFromHocon(data).ok) =>
        (~out.ok /\ out.err = TryFromHocon(data).err)
  /\ (pc = "children" /\ data.tag = "Array"
        /\ \E i \in 1..Len(data.items) : Fails(data.items[i])) =>
        /\ ~out.ok
        /\ out.err = WidgetUse_parse_hocon(data.items[FirstFailing(data.items)]).err
  /\ (pc = "use" /\ HasChildSpec(data)) =>
        LET c == parse_widget_use_children(ChildSpecOf(data))
        IN  /\ out.ok = c.ok
            /\ ~c.ok => out.err = c.err
  /\ (pc = "use" /\ IsHashStyle(data) /\ ~HasKey(data.pairs[1].v.pairs, "children")) =>
        out.ok

C9_Witness ==
  /\ pc = "use"
  /\ IsHashStyle(data)
  /\ HasChildSpec(data)
  /\ ChildSpecOf(data) = HArray(<<HNull, EmptyHash>>)
  /\ \E i \in 1..Len(data.pairs[1].v.pairs) : data.pairs[1].v.pairs[i] = Pair("foo", HNull)
  /\ ~out.ok
  /\ out.err.kind = "AttrValueCoercionFailed"

IsLowercase(k) == ToLowercase(k) = k

\* C3 as stated: two hash-style configurations that differ only in the
\* letter case of their keys give identical attrs maps, and every attribute
\* key of a constructed WidgetUse is lower-case.
C3_Original ==
  /\ (pc = "recased" /\ out.ok /\ out2.ok) => out2.use.attrs = out.use.attrs
  /\ (pc = "use" /\ out.ok) => \A k \in DOMAIN out.use.attrs : IsLowercase(k)

\* C10 as stated: WidgetUse::parse_hocon is a function of the configuration
\* value: a second run on an equal value gives the same WidgetUse or the same
\* error.
C10_Original ==
  pc = "again" => out2 = out

====
